SPECIFICATION Spec
CONSTANTS
    Apps = {a1, a2, a3}
    Bases = {"", "foo", "shell"}
    Idents <- FooIdents
    Slug <- FooSlug
    MAX_PREFIXES = 4
    SuffixLimit = 4
    MaxTakes = 5
CHECK_DEADLOCK FALSE
SYMMETRY AppSymmetry
INVARIANTS PrefixUnique NeverReused
