SPECIFICATION FairSpec
CONSTANTS
    Rows = {1, 2}
    api = api
    socket = socket
    Endpoints = {api, socket}
    KindOf <- MCKindOf
    Texts <- MCTexts
    Processes = {p1, p2}
    None = none
    TTL = 2
    MaxEdits = 2
INVARIANTS
    TypeOK
    YoungListsAgree
    EditorSeesChange
PROPERTIES
    ChangesReachAll
