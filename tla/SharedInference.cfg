SPECIFICATION Spec
CONSTANTS
    c1 = c1  c2 = c2
    k1 = k1  k2 = k2  k3 = k3
    Cameras = {c1, c2}
    Calls = {k1, k2, k3}
    CameraOf <- MCCameraOf
    ImagesOf <- MCImagesOf
    Poison = {c1}
    None = None
    MaxImages = 4
    MaxCameras = 2
    PerCamera = 2
    BatchSize = 4
    FrameAge = 0
    MaxAttempts = 5
    CameraThreshold = 2
    QuarantineTime = 1
    ProviderThreshold = 1
    MinCameras = 2
    MaxFaults = 1
INVARIANTS
    AnswersAreOwn
    AdmittedIsQueued
    PoisonIsContained
PROPERTIES
    FairTurns
    EveryCallEnds
CHECK_DEADLOCK FALSE
