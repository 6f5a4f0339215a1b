SPECIFICATION UpdateSpec
CONSTANTS
  UpdateFaults = {}
PROPERTIES OkMeansInstalled
