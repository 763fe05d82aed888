SPECIFICATION CoordinatorSpec
CONSTANTS
    Parts = {"plant"}
    command1 = command1
    command2 = command2
    Commands <- OneControl
    on = on
    off = off
    Settings <- OnOff
    NoSetting = noSetting
    Styles = {"switch", "value", "schedule"}
    MaxForeignChanges = 1
    inverter1 = inverter1
    inverter2 = inverter2
    site1 = site1
    site2 = site2
    site3 = site3
    site4 = site4
    Site <- Sites
    Threshold = 3
    serial1 = serial1
    serial2 = serial2
    Loadables <- TwoSerials
    task1 = task1
    task2 = task2
    task3 = task3
    Tasks <- ThreeTasks
    NoTask = noTask
    battery = battery
    Parents <- TwoInverters
    Modules <- Batteries
    ParentOf <- FirstInverter
    DeviceWindow = 1
    BatteryWindow = 2
    PruneAge = 3
    NoClock = noClock
    NoEntry = noEntry
    series1 = series1
    series2 = series2
    Series <- TwoSeries
    LastDay = 2
    west = west
    east = east
    eastAlias = eastAlias
    Zones <- ThreeZones
    Offset <- Offsets
    DayLength = 2
    None = none
    MaxFaults = 3
CHECK_DEADLOCK FALSE
INVARIANT
    EveryDayKept
