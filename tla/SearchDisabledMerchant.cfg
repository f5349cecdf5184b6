SPECIFICATION Spec
CONSTANTS
    None = None
    NaN = NaN
    Product <- Products
    Variant <- Variants
    ProductOf <- ProductsOf
    Merchant <- Merchants
    MerchantOf <- MerchantsOf
    Category <- Categories
    Lower <- Lowered
    Distance = {0, 1}
    Price = {1, 2}
    Stock = {0, 1, 2}
    Catalogs <- SomeCatalogs
    Requests <- AllRequests
    Limit = 2
    MaxRetries = 0
    DefaultDelay = 1
    MaxDelay = 2
    MaxChanges = 1
PROPERTIES
    DisabledMerchantsAreExcluded
CHECK_DEADLOCK FALSE
