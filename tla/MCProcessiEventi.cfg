SPECIFICATION SpecEqua
CONSTANTS
    N = 2
    MaxPid = 5
    Eventi = {"filo", "fork", "interrompi", "nonparte"}
PROPERTIES OrfanoRaccolto
