SPECIFICATION ReadSpec
CONSTANTS
    d1 = d1
    d2 = d2
    m1 = m1
    m2 = m2
    Deployments = {d1, d2}
    ConfigMaps = {m1, m2}
SYMMETRY NamespaceSymmetry
PROPERTY FindingsTrue
