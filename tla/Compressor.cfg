SPECIFICATION FairSpec
CONSTANTS
  Precision = 5
  Exponents = 5
  MinimumLevel = 16
  Channels = 2
  Coefficients <- MCCoefficients
  Samples <- MCSamples
  Threshold = 40
  Knee = 16
  RatioNum = 4
  RatioDen = 1
INVARIANT ReportIsOfHighestFrame
PROPERTIES
  EnvelopeApproachesLoudest
  LouderStaysLouder
  EnvelopeSettles
