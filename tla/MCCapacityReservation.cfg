SPECIFICATION FairSpec
CONSTANTS
    morning = morning
    evening = evening
    m1 = m1
    m2 = m2
    m3 = m3
    nm = nm
    n3 = n3
    s1 = s1
    tpl = tpl
    cls = cls
    big = big
    NoOcc = NoOcc
    Reservations = {morning, evening}
    Occurrences = {m1, m2, m3}
    Sessions = {s1}
    Names = {nm, n3}
    ResOf <- ResOfDef
    NameOf <- NameOfDef
    ActivateAt <- ActivateAtDef
    StartAt <- StartAtDef
    EndAt <- EndAtDef
    Count <- CountDef
    Behaviour <- BehaviourDef
    Template <- TemplateDef
    SessionTemplate <- SessionTemplateDef
    ClassOf <- ClassOfDef
    MaxTime = 3
    MaxFaults = 1
INVARIANTS
    ActiveHasDeployment
    LeakNeedsFault
    TargetWithinCount
    SessionCountedOnce
PROPERTIES
    ImplementsLife
    OrphanRemoved
    DueIsServed
CHECK_DEADLOCK FALSE
