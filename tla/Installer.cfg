SPECIFICATION Spec
CONSTANTS
    a = a
    b = b
    n1 = n1
    namespaces = namespaces
    app = app
    one = one
    two = two
    Cluster = Cluster
    None = None
    Foreign = Foreign
    Compositions = {a, b}
    Namespaces = {n1}
    Names <- MCNames
    Kinds = {namespaces, app}
    NamespaceKind = namespaces
    Lists <- MCLists
    Bases = {one, two}
    Base <- MCOwnBase
    Already = {n1}
INVARIANTS
    TypeOK
    GrantsLast
    NoMoreThanNeeded
PROPERTY
    AtomicWalks
