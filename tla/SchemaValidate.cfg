\* Every schema and every value of the instance.
CONSTANTS
  Names <- MCNames
  Schemas <- MCSchemas
  InstancesOf <- MCInstancesOf
  MaxEmail = 11
  MaxLocalPart = 4
  MaxHostname = 6
  MaxLabel = 4
  Ipv4Texts <- MCIpv4
  Ipv6Texts <- MCIpv6
  UrlTexts <- MCUrls
  SchemeTexts <- MCSchemes
SPECIFICATION Spec
INVARIANTS FormatsAsMeant VerdictIsMeant FailFastAgrees CyclesReported
CHECK_DEADLOCK FALSE
