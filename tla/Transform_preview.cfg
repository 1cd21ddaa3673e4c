SPECIFICATION DefinitionSpec
CONSTANTS
    ItemNames = {"x", "y"}
    MaxItems = 3
    MaxPreviews = 2
PROPERTIES
    RemovesOnlyFailed
CHECK_DEADLOCK FALSE
