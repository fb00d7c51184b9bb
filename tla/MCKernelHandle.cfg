CONSTANTS
    h1 = h1  h2 = h2  u1 = u1  u2 = u2
    o1 = o1  o2 = o2  o3 = o3  o4 = o4
    Slots <- MCSlots
    Objs <- MCObjs
    Kind <- MCKind
    Null = Null
    SelfMove = {"UniqueHandle"}
SPECIFICATION Spec
INVARIANTS
    HeapSafe
    SoleOwnership
