SPECIFICATION Spec
CONSTANTS
    Fetches <- One
    URLs <- AllURLs
    Inputs <- AllInputs
    Addresses <- MCAddresses
    Eligible <- MCEligible
    MaxConcurrent = 1
    MaxAttempts = 2
    MaxRedirects = 3
    AllowPlainHTTP = TRUE
    r1 = r1
    r2 = r2
    feed = feed
    other = other
    public = public
    private = private
CHECK_DEADLOCK FALSE
INVARIANTS
    ValidatorsStayAtOrigin
