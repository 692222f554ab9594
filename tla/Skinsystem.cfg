\* Every request, every answer of what it depends on.
SPECIFICATION Spec
CONSTANTS
  Nil = Nil
  Error = Error
INVARIANT LocalSkinIsServed
INVARIANT FailureIsNotAbsence
INVARIANT OneIdentity
INVARIANT SignatureFitsValue
