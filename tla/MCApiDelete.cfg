\* A super admin deletes a user who created a game.
INIT Init
NEXT Next
CONSTANTS
    Clients = {c1, c2}
    Ids = {u1, u2}
    GameIds = {g1}
    Names = {admin, other}
    AdminName = admin
    NoRow = NoRow
SYMMETRY ApiSymmetry
PROPERTIES
    SuperAdminDeletesAnyone
