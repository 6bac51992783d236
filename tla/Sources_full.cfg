CONSTANTS
  o1 = o1
  o2 = o2
  o3 = o3
  n1 = n1
  n2 = n2
  r1 = r1
  r2 = r2
  r3 = r3
  r4 = r4
  f1 = f1
  f2 = f2
  q1 = q1
  d1 = d1
  d2 = d2
  a1 = a1
  t1 = t1
  Local = Local
  Nobody = Nobody
  NoRef = NoRef
  Oid <- TwoRemoteOneLocal
  Node <- TwoNodes
  Ref <- FourRefs
  LocalOid <- OnlyLocal
  Announced <- OneEach
  Full <- TwoFull
  Quick <- None
  Destroyer <- TwoDestroyers
  Accepter <- None
  Remover <- OneRemover
SPECIFICATION Spec
INVARIANTS
  ItemsOfOneSource
  DestroyedIsGone

  
SYMMETRY Symmetry
