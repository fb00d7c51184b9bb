CONSTANTS
    o1 = o1
    c1 = c1
    c2 = c2
    m1 = m1
    k1 = k1
    l1 = l1
    l2 = l2
    x1 = x1
    x2 = x2
    u1 = u1
    u2 = u2
    u3 = u3
    u4 = u4
    Null = Null
    OptHandles = {o1}
    CtxHandles = {c1, c2}
    CmoHandles = {m1}
    CmHandles = {k1}
    LogHandles = {l1, l2}
    CtxObjs = {x1, x2}
    UserData = {u1, u2, u3, u4}
SYMMETRY Symm
SPECIFICATION Spec
INVARIANTS
    NoCallbackAfterDestroy
    NoLeak
