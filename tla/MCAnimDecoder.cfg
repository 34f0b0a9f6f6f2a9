CONSTANTS
    CanvasWidth = 3
    CanvasHeight = 2
    Animations <- MCAnimations
SPECIFICATION Spec
PROPERTIES
    ImplementsCanvas
