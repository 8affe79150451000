SPECIFICATION Spec
CONSTANTS
  Shapes <- TriedShapes
  MaxTokens = 4
  Minis = {4, 6}
  Micro = 1
  PromptLen = 1
  MinTokens = 2
INVARIANTS Aligned SameCollectives AssertsHold EvenLoads EachRowOnce TokenWeighted SameGeometry
