SPECIFICATION Spec
CONSTANTS
    Tabs = {t1, t2}
    a1 = a1
    a2 = a2
    o1 = o1
    o2 = o2
    Apps = {a1, a2}
    Orgs = {o1, o2}
    Installed <- MCInstalled
    JobOrgs = {o2}
    Hosts <- MCHosts
    MaxConnections = 2
SYMMETRY Symmetry
INVARIANTS
    SlotsInv
    ContinueOffered
    ClientsCoverTheirOrg
