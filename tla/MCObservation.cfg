SPECIFICATION Spec
CONSTANTS
    Components = {"universe", "artifacts", "repository", "suite"}
    absent = absent
    dynamic = dynamic
    other = other
    Names = {"a", "d"}
    Kind <- LinkKinds
    RootInode = 1
    FirstTree <- FileTree
    MaxMoves = 2
    MaxReads = 2
    Modes = {"git", "archive", "package", "tarball"}
    Tracked <- TrackedPaths
    Cached <- CachedPaths
    Selected <- PackageRoots
    Roles = {binary, library}
    MaxChunks = 2
    MaxUses = 1
    MaxOutside = 2
    GitPaths = {"p"}
    Contents = {0, 1}
    Branches = {"main", "topic"}
    MaxChanges = 2
    Order <- TwoTests
    ClassOf <- TwoClasses
    ModuleOf <- TwoModules
    ClassFixtures = {"A"}
    ModuleFixtures = {"M"}
    Declared <- TwoSkips
    MaxTickets = 1
    MaxTampering = 2
SYMMETRY Symmetry
INVARIANTS
    TypeOK
    AcceptedIsOneMoment
PROPERTIES
    CopiesStayFrozen
    CleanupIsHonest
    SuiteIsReal
CHECK_DEADLOCK FALSE
