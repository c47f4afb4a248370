SPECIFICATION FairSpec
CONSTANTS
  Precision = 5
  Exponents = 5
  MinimumLevel = 16
  Channels = 2
  Coefficients <- MCCoefficients
  Samples <- MCWithInfinite
  Threshold = 40
  Knee = 16
  RatioNum = 4
  RatioDen = 1
PROPERTY AudioComesBack
