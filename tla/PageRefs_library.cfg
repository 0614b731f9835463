CONSTANTS
    c1 = c1  c2 = c2  a = a  b = b  v1 = v1  v2 = v2  d1 = d1
    CPU = {c1, c2}
    Env = {a, b}
    Boot = {a}
    Page = {p1, p2, p3, p4, p5}
    Va = {v1, v2}
    Pd = {d1}
    PDX <- OneTable
    ImageVa = v1
    NoPage = NoPage  NoVa = NoVa  Idle = Idle
    RefMax = 10
    AnyUse = FALSE
SPECIFICATION Spec
SYMMETRY Alike
INVARIANTS PageInv LoadedInv TlbFresh
PROPERTY ReadOnlyStays
