SPECIFICATION ShortSpec
CONSTANTS
  None = None
  a1 = a1
  a2 = a2
  Agents = {a1, a2}
  TokenHolders = {a1}
  Chants = {c1}
  Sessions <- Calls
INVARIANTS TypeOK ResultsInOrder JoinersGetChants
 
