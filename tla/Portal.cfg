SPECIFICATION Spec
CONSTANTS
  Requests = {r1, r2}
  Orgs = {o1}
  ZammadOrgs = {z1, z2}
  Tickets = {t1}
  Documents = {d1}
  Faults = {"db", "api"}
  MaxArticles = 1
  MaxNotes = 1
SYMMETRY Symmetry
INVARIANTS
  PortalScoped
  NothingMissing
