SPECIFICATION PartSpec
CONSTANTS
    t1 = t1
    t2 = t2
    k1 = k1
    k2 = k2
    n1 = n1
    n2 = n2
    n3 = n3
    n4 = n4
    Head0 = head
    Null = null
    Thread <- MCThread
    Key <- MCKey
    Node <- MCNode4
    Numbers = {0, 3, 12, 21}
    MaxLength = 5
    MaxValue = 4
    MaxLists = 3
    Weights = {1, 2, 5}
    INF = 20
    Block = 8
    Word = 512
    WordBytes = 2
    MaxMessage = 70
SYMMETRY Symmetric
INVARIANTS
    AnswersFitList
    SortsSort
    TreesKeep
    GraphsAgree
    TextsAgree
PROPERTIES
    LinksStay
