SPECIFICATION LiveSpec
CONSTANTS
  Callers = {c1, c2}
  s1 = s1
  m1 = m1
  m2 = m2
  Subs <- MCSubs
  Methods <- MCMethods
  MethodsOf <- MCMethodsOf
  MaxIds = 2
INVARIANTS
  TypeOK
  HandOverIsSafe
  PanicNeedsCancelOrClose
PROPERTIES
  SendKeepsItsPromise
  ClosedWakesEveryone
