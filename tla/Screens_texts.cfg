CONSTANTS
  Cards = {2, 4}
  LcdTexts = 2
  AdTexts = 2
  MaxAsked = 2
SPECIFICATION Spec
INVARIANTS LcdTextsWhole AdTextsWhole PoweredBeforeTexts OneGreetingPerVisit
PROPERTIES TextsReachScreens HandshakeEnds
CHECK_DEADLOCK FALSE
