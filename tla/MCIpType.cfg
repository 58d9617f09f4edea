SPECIFICATION Spec
CONSTANTS
  Requests = {r1, r2, r3}
  Ips <- MCIps
  Class <- MCClass
  Orgs <- MCOrgs
  Names <- MCNames
  NoText = NoText
  Ttl = 2
  MaxNow = 2
SYMMETRY MCSymmetry
INVARIANT TypeInv
INVARIANT OrganisationDecides
INVARIANT NameFresh
INVARIANT SignalsExplain
CHECK_DEADLOCK FALSE
