CONSTANTS
  MapNames = {2}
  ScalarNames = {1, 3}
  MapKeys <- NamesAsKeys
  Values = {8, 9}
  FirstWord = 1
  Unknown = 99
SPECIFICATION Spec
INVARIANTS SignatureDecides HashIdentifies
