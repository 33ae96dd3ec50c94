\* Two connections that write and one that reads, two accounts, one game, two
\* names; pages of one row.
INIT ListingInit
NEXT ListingNext
CONSTANTS
    Clients = {c1, c2}
    Ids = {u1, u2}
    GameIds = {g1}
    Names = {1, 2}
    AdminName = 1
    NoRow = NoRow
    IntSize = 64
    AskedPerPage = 0
SYMMETRY ApiSymmetry
VIEW ListingView
INVARIANTS
    TypeOK
    TablesConsistent
    DeletedOnce
    PagesCoverTheList
PROPERTIES
    EffectsWereAuthorised
