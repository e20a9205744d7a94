SPECIFICATION Spec
CONSTANTS
    c1 = c1
    c2 = c2
    s1 = s1
    s2 = s2
    n1 = n1
    n2 = n2
    namespaces = namespaces
    app = app
    Cluster = Cluster
    None = None
    Charts = {c1, c2}
    Specs = {s1, s2}
    Namespaces = {n1, n2}
    Names <- MCNames
    Kinds = {namespaces, app}
    NamespaceKind = namespaces
    Manifests <- MCManifests
    Manifest <- MCManifest
    Needs <- MCNeeds
    MaxRetries = 1
    Budgets <- MCLiveBudgets
INVARIANT
    DeleteRemovesRBAC
CHECK_DEADLOCK FALSE
