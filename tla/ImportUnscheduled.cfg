SPECIFICATION Spec
CONSTANTS
    i1 = i1
    i2 = i2
    p1 = p1
    p2 = p2
    sari = sari
    cotton = cotton
    silk = silk
    f1 = f1
    f2 = f2
    f3 = f3
    f4 = f4
    NoFile = NoFile
    NoDocument = NoDocument
    Import <- TwoImports
    Product <- TwoProducts
    ProductPart <- OneName
    Material <- TwoMaterials
    File <- AllFiles
    Csv <- Files
    Malformed <- Unparsable
    MaxTasks = 1
    MaxFailures = 0
PROPERTIES
    EveryChangeIsScheduled
CHECK_DEADLOCK FALSE
