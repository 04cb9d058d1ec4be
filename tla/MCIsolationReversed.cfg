SPECIFICATION Spec
CONSTANTS
  Opaque = Opaque
  Scalar = Scalar
  NotAHistory = NotAHistory
  Objects <- MCObjects
INVARIANTS
  PassMeansSerializable
