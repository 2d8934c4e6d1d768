SPECIFICATION Spec
CONSTANTS
    stack = stack
    keyboard = keyboard
    sim = sim
    real = real
    simulator = simulator
    driver = driver
    homing = homing
    teleop = teleop
    Names = {stack}
    Runtimes = {sim, real}
    Robots = {robot1}
    Nodes = {simulator, driver, homing, teleop}
    Callers = {caller}
    Groups = {g1, g2}
    NoGroup = NoGroup
    CoreNodes <- MCCoreNodes
    DeferredNodes <- MCDeferredNodes
    ProcessOrder <- MCProcessOrder
    StopOrder <- MCStopOrder
PROPERTIES
    ConfigurationChangesWhenStopped
CHECK_DEADLOCK FALSE
