CONSTANTS
    Lists = {{g1}, {g1, g2}, {g2, g3}}
    DirectCIDRs = {c1}
    ProxyCIDRs = {g2}
    DirectDomains = {d1}
    OtherDests = {}
SPECIFICATION FairSpec
INVARIANTS
    NeverPartial
PROPERTIES
    DomainsReturn
