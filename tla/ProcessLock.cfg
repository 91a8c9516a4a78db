CONSTANTS
    p1 = p1
    p2 = p2
    p3 = p3
    container1 = container1
    container2 = container2
    Procs = {p1, p2, p3}
    Hosts = {container1, container2}
    Pids = {1, 2}
    MaxBoots = 4
SPECIFICATION Spec
INVARIANTS
    TypeOK
PROPERTIES
    TakenOnlyInARace
    RefusedForTheLiving
SYMMETRY Symmetric
