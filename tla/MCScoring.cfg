SPECIFICATION Spec
CONSTANTS
  v1 = v1
  v2 = v2
  c1 = c1
  c2 = c2
  Candidates = {c1, c2}
  Versions = {v1, v2}
  Workers = {w1, w2}
  Extracted <- MCExtracted
  Schema <- MCSchema
  Answers <- MCAnswers
  Sampled <- MCSampled
  LowConfidence = 6
  F1Target <- MCF1Target
  EvidenceTarget <- MCEvidenceTarget
  MinBucket = 1
  MaxRuns = 2
  MaxInputs = 2
  None = None
SYMMETRY Symmetry
INVARIANTS
  WhatIfReproducesGrade
  ConfusionsAgree
  DisputesQueued
  CalibrationAgrees
  TargetsNeedEvidence
PROPERTY ScoresAreFinal
CHECK_DEADLOCK FALSE
