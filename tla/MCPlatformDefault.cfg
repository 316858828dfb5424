CONSTANTS Order <- MCOrder Credentialed <- MCCredentialed
CONSTANTS Bootstrapped <- MCBootstrapped Announcing <- MCBootstrapped
CONSTANTS Silent = {} Movable = {} Jobs = {j1, j2} MaxActive = 2
CONSTANTS default = default sales = sales twin = twin
CONSTANTS Names = {default, sales, twin} Default = default Catalog <- MCCatalog
CONSTANTS Requests = {r1, r2} None = None
CONSTANTS MaxStarts = 2 MaxFaults = 1 MaxWipes = 1
SPECIFICATION MCSpec
SYMMETRY Symmetry
INVARIANT NoneIsMixed
CHECK_DEADLOCK FALSE
