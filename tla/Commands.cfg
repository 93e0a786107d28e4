SPECIFICATION CommandsSpec
CONSTANTS
    TextOrder <- MCTextOrder
    Lines <- MCLines
    Targets <- MCTargets
    Drafts <- MCDrafts
    Starts <- MCStarts
    Edits <- MCEdits
    ToolLists <- MCToolLists
    Oversized = {"long"}
    MaxFileBytes = 1
    MaxEdits = 2
INVARIANTS
    PromptRunsOnce
    AppliedPasses
PROPERTIES
    ReviewedOnly
