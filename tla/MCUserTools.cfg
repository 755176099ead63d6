SPECIFICATION Spec
CONSTANTS
    Tools = {t1, t2, t3, t4}
    NoTool = NoTool
    MaxTools = 3
    MaxRestarts = 3
SYMMETRY Symmetry
INVARIANTS TypeOK RestartKeepsTable
PROPERTIES ImplementsToolTable

