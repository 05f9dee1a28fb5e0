SPECIFICATION Spec
CONSTANTS
  Addresses <- MCAddresses
  AddressHash <- MCAddressHash
  RECORD_BUCKETS = 5
  MaxAdds = 6
INVARIANT LostIsListed
CHECK_DEADLOCK FALSE
