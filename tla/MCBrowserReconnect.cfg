\* One tab, two topics.
SPECIFICATION TabSpec
CONSTANTS
  PanelTopics = {"connection", "order"}
  MaxTabEvents = 6
INVARIANTS
  DropsAreRetried
CHECK_DEADLOCK FALSE
