SPECIFICATION MCSpec
CONSTANTS
    Image = {a, b}
    Img0 = img0
    Img1 = img1
    Unset = unset
    Size = 3
    Window = 2
    MaxLost = 1
    Ports = {0, 1}
    Top = 2
    MaxQueue = 2
    MaxDown = 1
INVARIANTS
    VersionOfImage
    
    AuditExact
PROPERTIES
    ReportsTwoImages
    ActivationReboots
    
