SPECIFICATION PanelSpec
CONSTANTS
    MonoImages = {"text", "page"}
    GrayImages = {"cover"}
    Levels = {0, 1}
INVARIANTS
    LightOffInFullRefresh
CHECK_DEADLOCK FALSE
