\* Every line of up to six characters.
CONSTANTS
  Letters = {"a"}
  MaxLength = 6
SPECIFICATION LexSpec
INVARIANTS LexerSound ParsesExactly
