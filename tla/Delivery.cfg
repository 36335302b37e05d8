SPECIFICATION Spec
CONSTANTS
  Nil = Nil
  Orders <- MCOrders
  Lexical <- MCLexical
  Width <- MCWidth
  Inputs <- MCInputs
INVARIANTS
  ClientRecovers
  MessagesLean
