SPECIFICATION Spec
CONSTANTS
    None = none
    Windows = {doc1, doc2}
    CanBecomeKey = {doc1, doc2}
    CanBecomeMain = {doc1, doc2}
    CanHide = {doc1}
    Miniaturizable = {doc1, doc2}
    WorksWhenModal = {doc2}
    MaxModal = 1
INVARIANTS
    TypeOK
    InactiveListHonest
    HiddenIsInactive
PROPERTIES
    FocusAgrees
    FocusOnScreen
    WindowsComeBack
    ModalWindowsStay
    KeyHandedOn
