SPECIFICATION DispatchSpec
CONSTANTS
    booking1 = booking1
    booking2 = booking2
    click1 = click1
    Tick = Tick
    NoBooking = NoBooking
    Bookings <- TwoBookings
    Clicks <- OneClick
    Reports <- Ride
    MaxAttempts = 2
    MaxLost = 0
CHECK_DEADLOCK FALSE
INVARIANT
    NeverASecondCourier
