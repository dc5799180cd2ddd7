SPECIFICATION DispatchFairSpec
CONSTANTS
    booking1 = booking1
    booking2 = booking2
    click1 = click1
    Tick = Tick
    NoBooking = NoBooking
    Bookings <- TwoBookings
    Clicks <- OneClick
    Reports <- Ride
    MaxAttempts = 2
    MaxLost = 1
CHECK_DEADLOCK FALSE
INVARIANTS
    OneCourier
    CustomerToldOnce
PROPERTIES
    DeliveryEnds
    CourierIsOrdersLeg
