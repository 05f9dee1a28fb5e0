SPECIFICATION Spec
CONSTANTS
  Others <- MCOthers
  OtherHash <- MCOtherHash
  OtherLength <- MCOtherLength
INVARIANTS
  LoneLookupsExact
  LookupsExact
  LookupsAnswer
