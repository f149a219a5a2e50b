SPECIFICATION Spec
CONSTANTS
    None = none
    Windows = {doc1, doc2, panel}
    CanBecomeKey = {doc1, doc2, panel}
    CanBecomeMain = {doc1, doc2}
    CanHide = {doc1, panel}
    Miniaturizable = {doc1, doc2}
    WorksWhenModal = {panel}
    MaxModal = 1
PROPERTIES
    BeginMakesKey
