\* A main server and a virtual host, with up to two lines besides those with the
\* certificates and keys.
SPECIFICATION Spec
CONSTANTS
  N = 2
  HostPort <- MCHostPort
  Arguments <- MCArguments
  ResponseMax = 2097152
  Unlimited = 4194304
  MaxLines = 2
INVARIANTS
  ListensAsWritten
  LimitsInRange
  AdvertisesListener
CHECK_DEADLOCK FALSE
