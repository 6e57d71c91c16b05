CONSTANTS
    Root = Root
    D = D
    F = F
    Journal <- MCJournal
    Catalogue0 <- MCCatalogue0
    MaxFaults = 2
SPECIFICATION Spec
PROPERTY ApplyReturns
