\* Two rows, two uploads and two sweeps over one object, four ticks of age.
SPECIFICATION Spec
CONSTANTS
    Objects = {n1}
    Rows = {k1, k2}
    Uploads = {u1, u2}
    Sweeps = {g1, g2}
    MinAge = 4
    UploadTime = 1
    ScanTime = 1
    MaxTime = 6
    Nothing = Nothing
SYMMETRY Symmetry
INVARIANTS
    TypeOK
    VouchedObjectsStay
