SPECIFICATION Spec
CONSTANTS
    r1 = r1
    r2 = r2
    e1 = e1
    e2 = e2
    e3 = e3
    m1 = m1
    m2 = m2
    b1 = b1
    c1 = c1
    boot1 = boot1
    boot2 = boot2
    Requests = {r1, r2}
    Events = {e1, e2, e3}
    Position <- Newest
    Filters <- OrOne
    PerPage = 1
    Editors = {x, y}
    Boots = {boot1, boot2}
    BuiltinIds = {b1}
    CustomIds = {c1}
    Bodies <- AllBodies
    BuiltinOf <- Releases
    NoRow = NoRow
    None = None
    Groups = {1, 2}
    GroupOf <- Days
    TitleOf <- Titles
    Thin = {"wip"}
    DiffOf <- Diffs
    DiffTruncateLen = 1
    Models = {m1, m2}
    SchemaModels = {m2}
    Versions = {"v1", "v2"}
    Loads <- TwoRuns
CHECK_DEADLOCK FALSE
INVARIANT DescriptionsCurrent
