\* An unevaluatedProperties schema that has members of its own.
CONSTANTS
  Names <- MCNames
  Schemas <- LeakSchemas
  InstancesOf <- LeakInstances
  MaxEmail = 11
  MaxLocalPart = 4
  MaxHostname = 6
  MaxLabel = 4
  Ipv4Texts <- MCIpv4
  Ipv6Texts <- MCIpv6
  UrlTexts <- MCUrls
  SchemeTexts <- MCSchemes
SPECIFICATION Spec
INVARIANT VerdictIsMeant
CHECK_DEADLOCK FALSE
